---- MODULE Spec2Model ----
(***************************************************************************)
(* Model of the per-model CSV export scripts of ebay-scrapping:            *)
(*   test.py, pixel_all_only.py, iphone_all_only.py and                    *)
(*   Google Pixel/Pixel_Model/pixel_only.py.                               *)
(* Strings are sequences of one-character strings.  The regular            *)
(* expressions of the scripts are written as syntax trees and run by a     *)
(* backtracking matcher that returns the matches in the priority order of  *)
(* Python's re module, so that "first alternative that lets the whole      *)
(* pattern match" is what the model computes.                              *)
(***************************************************************************)
EXTENDS Integers, Sequences, FiniteSets, TLC

(***************************************************************************)
(* Characters                                                              *)
(***************************************************************************)
LowerOf ==
  [A |-> "a", B |-> "b", C |-> "c", D |-> "d", E |-> "e", F |-> "f",
   G |-> "g", H |-> "h", I |-> "i", J |-> "j", K |-> "k", L |-> "l",
   M |-> "m", N |-> "n", O |-> "o", P |-> "p", Q |-> "q", R |-> "r",
   S |-> "s", T |-> "t", U |-> "u", V |-> "v", W |-> "w", X |-> "x",
   Y |-> "y", Z |-> "z"]

UpperLetters == DOMAIN LowerOf

Lower(c) == IF c \in UpperLetters THEN LowerOf[c] ELSE c

LowerLetters ==
  {"a","b","c","d","e","f","g","h","i","j","k","l","m",
   "n","o","p","q","r","s","t","u","v","w","x","y","z"}

Digits == {"0","1","2","3","4","5","6","7","8","9"}

Digits19 == {"1","2","3","4","5","6","7","8","9"}

\* \s of Python's re on str patterns (the members that occur in the inputs)
Whitespace == {" ", "\t"}

\* [\s_-]
SepClass == Whitespace \cup {"_", "-"}

\* \w : letters, digits and the underscore
WordChars == UpperLetters \cup LowerLetters \cup Digits \cup {"_"}

IsWordChar(c) == c \in WordChars

RECURSIVE lower(_)
\* str.lower()
lower(s) == IF s = <<>> THEN <<>> ELSE <<Lower(Head(s))>> \o lower(Tail(s))

(***************************************************************************)
(* Regular expressions (the subset of Python's re the scripts use)         *)
(***************************************************************************)
Chr(S)      == [k |-> "chr", set |-> S]            \* a class, e.g. [0-9], \s
Lit(w)      == [k |-> "lit", w |-> w]              \* literal text, re.IGNORECASE
LitCS(w)    == [k |-> "lcs", w |-> w]              \* literal text, case sensitive
AnyChar     == [k |-> "any"]                       \* .
Cat(rs)     == [k |-> "cat", rs |-> rs]            \* r1 r2 ...
Alt(rs)     == [k |-> "alt", rs |-> rs]            \* r1|r2|...
Rep(r, m, n) == [k |-> "rep", r |-> r, m |-> m, n |-> n]  \* r{m,n}, greedy
Star(r)     == [k |-> "star", r |-> r]             \* r*
Plus(r)     == Cat(<<r, Star(r)>>)                 \* r+
Opt(r)      == Rep(r, 0, 1)                        \* r?
Grp(n, r)   == [k |-> "grp", n |-> n, r |-> r]     \* capturing group number n
WordB       == [k |-> "wb"]                        \* \b
NotAhead(r) == [k |-> "nla", r |-> r]              \* (?!r)
Bos         == [k |-> "bos"]                       \* ^
Eos         == [k |-> "eos"]                       \* $

NoGroup  == <<0, 0>>
NoGroups == <<NoGroup, NoGroup>>

LitAt(w, s, i, fold) ==
  /\ i + Len(w) - 1 <= Len(s)
  /\ \A j \in 1..Len(w) :
        IF fold THEN Lower(s[i + j - 1]) = Lower(w[j]) ELSE s[i + j - 1] = w[j]

\* \b at position i (between s[i-1] and s[i])
AtWordBoundary(s, i) ==
  LET before == i > 1 /\ IsWordChar(s[i - 1])
      after  == i <= Len(s) /\ IsWordChar(s[i])
  IN  before # after

RECURSIVE Ends(_, _, _, _)
RECURSIVE EndsCat(_, _, _, _, _)
RECURSIVE ThenCat(_, _, _, _, _)
RECURSIVE EndsAlt(_, _, _, _, _)
RECURSIVE EndsRep(_, _, _, _, _, _)
RECURSIVE ThenRep(_, _, _, _, _, _)
RECURSIVE ThenStar(_, _, _, _, _)
RECURSIVE SetGroup(_, _, _, _)

\* All the ways regex r matches s from position i with the groups g captured
\* so far, as a sequence of <<end position, groups>> in backtracking order:
\* the first element is the match Python's re takes.
Ends(r, s, i, g) ==
  CASE r.k = "chr" ->
         IF i <= Len(s) /\ Lower(s[i]) \in r.set THEN << <<i + 1, g>> >> ELSE <<>>
    [] r.k = "lit" -> IF LitAt(r.w, s, i, TRUE) THEN << <<i + Len(r.w), g>> >> ELSE <<>>
    [] r.k = "lcs" -> IF LitAt(r.w, s, i, FALSE) THEN << <<i + Len(r.w), g>> >> ELSE <<>>
    [] r.k = "any" -> IF i <= Len(s) THEN << <<i + 1, g>> >> ELSE <<>>
    [] r.k = "cat" -> EndsCat(r.rs, 1, s, i, g)
    [] r.k = "alt" -> EndsAlt(r.rs, 1, s, i, g)
    [] r.k = "rep" -> EndsRep(r.r, r.m, r.n, s, i, g)
    [] r.k = "star" -> ThenStar(Ends(r.r, s, i, g), 1, r, s, i) \o << <<i, g>> >>
    [] r.k = "grp" -> SetGroup(Ends(r.r, s, i, g), 1, r.n, i)
    [] r.k = "wb"  -> IF AtWordBoundary(s, i) THEN << <<i, g>> >> ELSE <<>>
    [] r.k = "nla" -> IF Ends(r.r, s, i, g) = <<>> THEN << <<i, g>> >> ELSE <<>>
    [] r.k = "bos" -> IF i = 1 THEN << <<i, g>> >> ELSE <<>>
    [] r.k = "eos" -> IF i = Len(s) + 1 THEN << <<i, g>> >> ELSE <<>>

EndsCat(rs, k, s, i, g) ==
  IF k > Len(rs) THEN << <<i, g>> >>
  ELSE ThenCat(Ends(rs[k], s, i, g), 1, rs, k + 1, s)

ThenCat(res, j, rs, k, s) ==
  IF j > Len(res) THEN <<>>
  ELSE EndsCat(rs, k, s, res[j][1], res[j][2]) \o ThenCat(res, j + 1, rs, k, s)

EndsAlt(rs, k, s, i, g) ==
  IF k > Len(rs) THEN <<>>
  ELSE Ends(rs[k], s, i, g) \o EndsAlt(rs, k + 1, s, i, g)

EndsRep(r, m, n, s, i, g) ==
  IF n = 0 THEN << <<i, g>> >>
  ELSE ThenRep(Ends(r, s, i, g), 1, r, IF m > 0 THEN m - 1 ELSE 0, n - 1, s)
       \o (IF m = 0 THEN << <<i, g>> >> ELSE <<>>)

ThenRep(res, j, r, m, n, s) ==
  IF j > Len(res) THEN <<>>
  ELSE EndsRep(r, m, n, s, res[j][1], res[j][2]) \o ThenRep(res, j + 1, r, m, n, s)

ThenStar(res, j, r, s, i) ==
  IF j > Len(res) THEN <<>>
  ELSE (IF res[j][1] > i THEN Ends(r, s, res[j][1], res[j][2]) ELSE <<>>)
       \o ThenStar(res, j + 1, r, s, i)

SetGroup(res, j, n, i) ==
  IF j > Len(res) THEN <<>>
  ELSE << <<res[j][1], [res[j][2] EXCEPT ![n] = <<i, res[j][1]>>]>> >>
       \o SetGroup(res, j + 1, n, i)

NoMatch == [ok |-> FALSE, start |-> 0, end |-> 0, groups |-> NoGroups]

\* the match object of an attempt at position i (re.match when i = 1)
MatchAt(r, s, i) ==
  LET res == Ends(r, s, i, NoGroups)
  IN  IF res = <<>> THEN NoMatch
      ELSE [ok |-> TRUE, start |-> i, end |-> res[1][1], groups |-> res[1][2]]

RECURSIVE SearchFrom(_, _, _)
\* pattern.search(s, pos): the leftmost match starting at or after i
SearchFrom(r, s, i) ==
  IF i > Len(s) + 1 THEN NoMatch
  ELSE LET m == MatchAt(r, s, i)
       IN  IF m.ok THEN m ELSE SearchFrom(r, s, i + 1)

Search(r, s) == SearchFrom(r, s, 1)

RECURSIVE FindIterFrom(_, _, _)
\* pattern.finditer(s): the non-overlapping matches, left to right
FindIterFrom(r, s, i) ==
  LET m == SearchFrom(r, s, i)
  IN  IF ~m.ok THEN <<>>
      ELSE <<m>> \o FindIterFrom(r, s, IF m.end > m.start THEN m.end ELSE m.end + 1)

FindIter(r, s) == FindIterFrom(r, s, 1)

\* m.group(n) as text; <<>> stands for both None and '' (callers use "or ''")
Group(m, s, n) ==
  IF m.groups[n] = NoGroup THEN <<>>
  ELSE SubSeq(s, m.groups[n][1], m.groups[n][2] - 1)

GroupIsNone(m, n) == m.groups[n] = NoGroup

(***************************************************************************)
(* Python values and str methods                                           *)
(***************************************************************************)
\* None: a one-element sequence that no text (a sequence of characters) equals
None == <<"None">>

RECURSIVE lstrip(_)
lstrip(s) == IF s # <<>> /\ Head(s) \in Whitespace THEN lstrip(Tail(s)) ELSE s

RECURSIVE rstrip(_)
rstrip(s) ==
  IF s # <<>> /\ s[Len(s)] \in Whitespace THEN rstrip(SubSeq(s, 1, Len(s) - 1)) ELSE s

\* str.strip()
strip(s) == rstrip(lstrip(s))

RECURSIVE collapse_ws(_)
\* re.sub(r'\s+', ' ', s)
collapse_ws(s) ==
  IF s = <<>> THEN <<>>
  ELSE IF Head(s) \in Whitespace
       THEN <<" ">> \o collapse_ws(lstrip(s))
       ELSE <<Head(s)>> \o collapse_ws(Tail(s))

RECURSIVE replace(_, _, _)
\* str.replace(old, new), old not empty
replace(s, old, new) ==
  IF s = <<>> THEN <<>>
  ELSE IF LitAt(old, s, 1, FALSE)
       THEN new \o replace(SubSeq(s, Len(old) + 1, Len(s)), old, new)
       ELSE <<Head(s)>> \o replace(Tail(s), old, new)

RECURSIVE SplitWords(_, _)
SplitWords(s, cur) ==
  IF s = <<>> THEN (IF cur = <<>> THEN <<>> ELSE <<cur>>)
  ELSE IF Head(s) \in Whitespace
       THEN (IF cur = <<>> THEN <<>> ELSE <<cur>>) \o SplitWords(Tail(s), <<>>)
       ELSE SplitWords(Tail(s), Append(cur, Head(s)))

\* str.split() with no separator
split(s) == SplitWords(s, <<>>)

\* s.endswith(w), case sensitive
endswith(s, w) == Len(w) <= Len(s) /\ SubSeq(s, Len(s) - Len(w) + 1, Len(s)) = w

RECURSIVE Contains(_, _, _)
Contains(s, w, fold) ==
  IF Len(s) < Len(w) THEN FALSE
  ELSE LitAt(w, s, 1, fold) \/ Contains(Tail(s), w, fold)

RECURSIVE dict_fromkeys(_, _)
\* list(dict.fromkeys(xs)): drop repeats, keep the order of first occurrence
dict_fromkeys(xs, seen) ==
  IF xs = <<>> THEN <<>>
  ELSE IF Head(xs) \in seen THEN dict_fromkeys(Tail(xs), seen)
       ELSE <<Head(xs)>> \o dict_fromkeys(Tail(xs), seen \cup {Head(xs)})

(***************************************************************************)
(* The scripts                                                             *)
(***************************************************************************)
Scripts == {"test", "pixel_all", "pixel_only", "iphone"}

WS == Chr(Whitespace)

w_google == <<"g","o","o","g","l","e">>
w_apple  == <<"a","p","p","l","e">>
w_pixel  == <<"p","i","x","e","l">>
w_iphone == <<"i","p","h","o","n","e">>
w_pro    == <<"p","r","o">>
w_xl     == <<"x","l">>
w_a      == <<"a">>
w_max    == <<"m","a","x">>
w_plus   == <<"p","l","u","s">>
w_mini   == <<"m","i","n","i">>
w_5g     == <<"5","g">>
w_pro_xl  == <<"p","r","o"," ","x","l">>
w_pro_max == <<"p","r","o"," ","m","a","x">>

c_Pixel   == <<"P","i","x","e","l">>
c_iPhone  == <<"i","P","h","o","n","e">>
c_Pro     == <<" ","P","r","o">>
c_XL      == <<" ","X","L">>
c_ProXL   == <<" ","P","r","o"," ","X","L">>
c_ProMax  == <<" ","P","r","o"," ","M","a","x">>
c_Plus    == <<" ","P","l","u","s">>
c_Mini    == <<" ","M","i","n","i">>
c_Max     == <<" ","M","a","x">>

(***************************************************************************)
(* Model Token Normalizer                                                  *)
(***************************************************************************)
\* the variant alternation of the title pattern and of the token pattern
SuffixAlt(script) ==
  CASE script = "test" ->
         Alt(<<Cat(<<Lit(w_pro), Plus(WS), Lit(w_xl)>>), Lit(w_pro), Lit(w_xl), Lit(w_a)>>)
    [] script = "pixel_all" ->
         Alt(<<Lit(w_pro), Lit(w_xl), Lit(w_pro_xl), Lit(w_a)>>)
    [] script = "pixel_only" ->
         Alt(<<Lit(w_pro), Lit(w_xl), Lit(w_a)>>)
    [] script = "iphone" ->
         Alt(<<Cat(<<Lit(w_pro), Plus(WS), Lit(w_max)>>), Lit(w_pro), Lit(w_plus),
               Lit(w_mini), Lit(w_max)>>)

\* [1-9][0-9]?
ModelNumber == Cat(<<Chr(Digits19), Opt(Chr(Digits))>>)

\* MODEL_RE / IPHONE_MODEL_RE
MODEL_RE(script) ==
  IF script = "iphone"
  THEN Cat(<<Opt(Cat(<<Lit(w_apple), Plus(WS)>>)), Lit(w_iphone), Plus(WS),
             Grp(1, Cat(<<ModelNumber, Opt(Cat(<<Opt(WS), SuffixAlt(script)>>))>>)),
             WordB>>)
  ELSE Cat(<<Opt(Cat(<<Lit(w_google), Plus(WS)>>)), Lit(w_pixel), Plus(WS),
             Grp(1, Cat(<<ModelNumber, Opt(Cat(<<Opt(WS), SuffixAlt(script)>>))>>)),
             WordB, Opt(Cat(<<Star(WS), Lit(w_5g)>>))>>)

\* the pattern of normalize_model_token / normalize_iphone_token
TOKEN_RE(script) ==
  Cat(<<Bos, Grp(1, ModelNumber),
        Opt(Cat(<<Opt(WS), Grp(2, SuffixAlt(script))>>)), Eos>>)

\* normalize_model_token / normalize_iphone_token
normalize_model_token(script, token) ==
  LET t   == collapse_ws(strip(token))
      m   == MatchAt(TOKEN_RE(script), t, 1)
      num == Group(m, t, 1)
      suf == IF script = "test" \/ script = "iphone"
             THEN lower(strip(Group(m, t, 2)))
             ELSE lower(Group(m, t, 2))
  IN  IF ~m.ok THEN None
      ELSE IF script = "iphone"
      THEN CASE suf = <<>>      -> c_iPhone \o <<" ">> \o num
             [] suf = w_pro_max -> c_iPhone \o <<" ">> \o num \o c_ProMax
             [] suf = w_pro     -> c_iPhone \o <<" ">> \o num \o c_Pro
             [] suf = w_plus    -> c_iPhone \o <<" ">> \o num \o c_Plus
             [] suf = w_mini    -> c_iPhone \o <<" ">> \o num \o c_Mini
             [] suf = w_max     -> c_iPhone \o <<" ">> \o num \o c_Max
             [] OTHER           -> None
      ELSE CASE suf = <<>>      -> c_Pixel \o <<" ">> \o num
             [] suf = w_pro     -> c_Pixel \o <<" ">> \o num \o c_Pro
             [] suf = w_xl      -> c_Pixel \o <<" ">> \o num \o c_XL
             [] suf = w_pro_xl /\ script # "pixel_only"
                                -> c_Pixel \o <<" ">> \o num \o c_ProXL
             [] suf = w_a       -> c_Pixel \o <<" ">> \o num \o <<"a">>
             [] OTHER           -> None

RECURSIVE GroupsOf(_, _, _)
\* [m.group(n) for m in matches]
GroupsOf(ms, s, n) ==
  IF ms = <<>> THEN <<>> ELSE <<Group(Head(ms), s, n)>> \o GroupsOf(Tail(ms), s, n)

RECURSIVE CanonOf(_, _)
\* the loop that keeps the tokens normalize_model_token accepts
CanonOf(script, tokens) ==
  IF tokens = <<>> THEN <<>>
  ELSE LET canon == normalize_model_token(script, Head(tokens))
       IN  (IF canon # None /\ canon # <<>> THEN <<canon>> ELSE <<>>)
           \o CanonOf(script, Tail(tokens))

\* the canonical models of the mentions of a title, repeats included
MentionedModels(script, title) ==
  CanonOf(script, GroupsOf(FindIter(MODEL_RE(script), title), title, 1))

\* the first mention wins, whatever else the title mentions
first_model_or_none(script, title) ==
  LET models == MentionedModels(script, title)
  IN  IF models # <<>> THEN models[1] ELSE None

\* extract_single_model_or_none / extract_single_iphone_model_or_none
extract_single_model_or_none(script, title) ==
  LET models == dict_fromkeys(MentionedModels(script, title), {})
  IN  IF Len(models) = 1 THEN models[1] ELSE None

(***************************************************************************)
(* Source File Resolver                                                    *)
(***************************************************************************)
\* the characters in code point order (what str comparison and sorted use)
CharOrder ==
  <<"\t", " ", "-", ".", "0", "1", "2", "3", "4", "5", "6", "7", "8", "9",
    "A", "B", "C", "D", "E", "F", "G", "H", "I", "J", "K", "L", "M",
    "N", "O", "P", "Q", "R", "S", "T", "U", "V", "W", "X", "Y", "Z", "_",
    "a", "b", "c", "d", "e", "f", "g", "h", "i", "j", "k", "l", "m",
    "n", "o", "p", "q", "r", "s", "t", "u", "v", "w", "x", "y", "z">>

OrdOf ==
  [c \in { CharOrder[k] : k \in 1..Len(CharOrder) } |->
     CHOOSE k \in 1..Len(CharOrder) : CharOrder[k] = c]

ord(c) == OrdOf[c]

RECURSIVE StrLess(_, _)
\* a < b on str
StrLess(a, b) ==
  IF b = <<>> THEN FALSE
  ELSE IF a = <<>> THEN TRUE
  ELSE IF Head(a) = Head(b) THEN StrLess(Tail(a), Tail(b))
  ELSE ord(Head(a)) < ord(Head(b))

RECURSIVE Insert(_, _)
Insert(x, sortedSeq) ==
  IF sortedSeq = <<>> THEN <<x>>
  ELSE IF StrLess(Head(sortedSeq), x)
       THEN <<Head(sortedSeq)>> \o Insert(x, Tail(sortedSeq))
       ELSE <<x>> \o sortedSeq

\* the names in the order of the listing
listing_order(xs) == xs

RECURSIVE sorted(_)
\* sorted(names): ascending
sorted(xs) == IF xs = <<>> THEN <<>> ELSE Insert(Head(xs), sorted(Tail(xs)))

w_csv == <<".","c","s","v">>

\* A directory entry: the name of a file and the folder it is in relative to
\* the data directory ("" for the data directory itself).
\* directory.glob('*.csv'): the entries of the directory itself whose name
\* ends in ".csv", in the order the directory lists them
RECURSIVE glob_csv(_)
glob_csv(listing) ==
  IF listing = <<>> THEN <<>>
  ELSE (IF Head(listing).folder = "" /\ endswith(Head(listing).name, w_csv)
        THEN <<Head(listing).name>> ELSE <<>>)
       \o glob_csv(Tail(listing))

\* [0-9]{1,2} and [0-9]{2}
Digits12 == Rep(Chr(Digits), 1, 2)
Digits22 == Rep(Chr(Digits), 2, 2)

\* the pattern that model_name is matched against
NAME_RE(script) ==
  CASE script = "test" ->
         Cat(<<Bos, Lit(w_pixel), Plus(WS), Grp(1, Digits12),
               Opt(Cat(<<Plus(WS),
                         Grp(2, Alt(<<Cat(<<Lit(w_pro), Opt(Cat(<<Plus(WS), Lit(w_xl)>>))>>),
                                      Lit(w_xl), Lit(w_a)>>))>>)),
               Eos>>)
    [] script = "pixel_all" ->
         Cat(<<Bos, Lit(w_pixel), Plus(WS), Grp(1, Digits12),
               Opt(Cat(<<Plus(WS), Grp(2, Alt(<<Lit(w_pro), Lit(w_xl)>>)),
                         Opt(Cat(<<Plus(WS), Lit(w_xl)>>))>>)),
               Eos>>)
    [] script = "pixel_only" ->
         Cat(<<Bos, Lit(w_pixel), Plus(WS), Grp(1, Digits12), Plus(WS), Lit(w_pro), Eos>>)
    [] script = "iphone" ->
         Cat(<<Bos, Lit(w_iphone), Plus(WS), Grp(1, Digits22),
               Opt(Cat(<<Plus(WS), Grp(2, Lit(w_pro)),
                         Opt(Cat(<<Plus(WS), Lit(w_max)>>))>>)),
               Eos>>)

\* [\s_-]*
Seps == Star(Chr(SepClass))

\* .*\.csv$
CsvTail == <<Star(AnyChar), Lit(w_csv), Eos>>

RECURSIVE TokenParts(_)
\* ''.join([rf'[\s_-]*{re.escape(tok)}' for tok in model_tokens])
TokenParts(toks) ==
  IF toks = <<>> THEN <<>> ELSE <<Seps, Lit(Head(toks))>> \o TokenParts(Tail(toks))

VariantNotSupported == "ValueError: Variant not supported"
NameNotRecognized   == "ValueError: Model name not recognized"

\* variant = (m.group(2) or '').strip().lower()
VariantOf(script, model_name) ==
  lower(strip(Group(MatchAt(NAME_RE(script), model_name, 1), model_name, 2)))

\* the variant chain of test.py does not end in its else branch
VariantSupported(script, model_name) ==
  script = "test" =>
    VariantOf(script, model_name) \in {<<>>, w_xl, w_pro, w_pro_xl, w_a}

\* The filename pattern built for a recognized model name
FILE_RE(script, model_name) ==
  LET m       == MatchAt(NAME_RE(script), model_name, 1)
      num     == Group(m, model_name, 1)
      variant == lower(strip(Group(m, model_name, 2)))
  IN  CASE script = "test" ->
          (CASE variant = <<>> ->
                  Cat(<<WordB, Lit(w_pixel), Seps, Lit(num), WordB,
                        NotAhead(Cat(<<Seps, Alt(<<Lit(w_pro), Lit(w_xl), Lit(w_a)>>)>>))>>
                      \o CsvTail)
             [] variant = w_xl ->
                  Cat(<<WordB, Lit(w_pixel), Seps, Lit(num), Seps, Lit(w_xl), WordB,
                        NotAhead(Cat(<<Star(AnyChar), Lit(w_pro)>>))>>
                      \o CsvTail)
             [] variant = w_pro ->
                  Cat(<<WordB, Lit(w_pixel), Seps, Lit(num), Seps, Lit(w_pro), WordB,
                        NotAhead(Cat(<<Seps, Lit(w_xl)>>))>>
                      \o CsvTail)
             [] variant = w_pro_xl ->
                  Cat(<<WordB, Lit(w_pixel), Seps, Lit(num), Seps, Lit(w_pro), Seps,
                        Lit(w_xl), WordB>>
                      \o CsvTail)
             [] variant = w_a ->
                  Cat(<<WordB, Lit(w_pixel), Seps, Lit(num), Seps, Lit(w_a), WordB>>
                      \o CsvTail))
        [] script = "pixel_all" ->
           LET model_tokens == split(strip(replace(model_name, c_Pixel, <<>>)))
           IN  Cat(<<WordB, Lit(w_pixel)>> \o TokenParts(model_tokens) \o <<WordB>>
                   \o CsvTail)
        [] script = "pixel_only" ->
           Cat(<<WordB, Lit(w_pixel), Seps, Lit(num), Seps, Lit(w_pro), WordB>> \o CsvTail)
        [] script = "iphone" ->
           LET is_pro     == ~GroupIsNone(m, 2)
               is_pro_max == endswith(lower(strip(model_name)), w_pro_max)
           IN  IF is_pro_max
               THEN Cat(<<WordB, Lit(w_iphone), Seps, Lit(num), Seps, Lit(w_pro), Seps,
                          Lit(w_max), WordB>> \o CsvTail)
               ELSE IF is_pro
               THEN Cat(<<WordB, Lit(w_iphone), Seps, Lit(num), Seps, Lit(w_pro), WordB,
                          NotAhead(Cat(<<Seps, Lit(w_max)>>))>> \o CsvTail)
               ELSE Cat(<<WordB, Lit(w_iphone), Seps, Lit(num), WordB,
                          NotAhead(Cat(<<Seps, Alt(<<Lit(w_pro), Lit(w_max)>>)>>))>>
                        \o CsvTail)

RECURSIVE Matching(_, _)
\* [p for p in names if pattern.search(p.name)]
Matching(pattern, names) ==
  IF names = <<>> THEN <<>>
  ELSE (IF Search(pattern, Head(names)).ok THEN <<Head(names)>> ELSE <<>>)
       \o Matching(pattern, Tail(names))

\* model_name parses against the grammar of the script's resolver
Recognized(script, model_name) == MatchAt(NAME_RE(script), model_name, 1).ok

\* The candidates in the order the resolver ranks them
Candidates(pattern, listing) == sorted(Matching(pattern, glob_csv(listing)))

\* a resolver that answers None to a name it does not recognize
find_csv_or_none(script, listing, model_name) ==
  IF ~Recognized(script, model_name) \/ ~VariantSupported(script, model_name)
  THEN [exc |-> "", path |-> None]
  ELSE LET candidates == Candidates(FILE_RE(script, model_name), listing)
       IN  [exc |-> "", path |-> IF candidates # <<>> THEN candidates[1] ELSE None]

\* find_csv_for_model / find_csv_for_iphone: the exception raised ("" when
\* none) and the value returned (a file name of the directory, or None)
find_csv_for_model(script, listing, model_name) ==
  IF ~Recognized(script, model_name)
  THEN [exc |-> NameNotRecognized, path |-> None]
  ELSE IF ~VariantSupported(script, model_name)
  THEN [exc |-> VariantNotSupported, path |-> None]
  ELSE LET candidates == Candidates(FILE_RE(script, model_name), listing)
       IN  [exc |-> "", path |-> IF candidates # <<>> THEN candidates[1] ELSE None]

(***************************************************************************)
(* Title Field Extractor                                                   *)
(***************************************************************************)
w_gb        == <<"g","b">>
c_GB        == <<" ","G","B">>
c_Unknown   == <<"U","n","k","n","o","w","n">>
c_Excellent == <<"E","x","c","e","l","l","e","n","t">>
c_Very      == <<"V","e","r","y">>
c_Good      == <<"G","o","o","d">>
c_VeryGood  == <<"V","e","r","y"," ","G","o","o","d">>
c_PartsOnly == <<"P","a","r","t","s"," ","O","n","l","y">>

\* (\d{2,4})\s?GB\b
STORAGE_RE == Cat(<<Grp(1, Rep(Chr(Digits), 2, 4)), Opt(WS), Lit(w_gb), WordB>>)

\* the search without the word boundary after GB
storage_no_boundary(title) ==
  LET m == Search(Cat(<<Grp(1, Rep(Chr(Digits), 2, 4)), Opt(WS), Lit(w_gb)>>), title)
  IN  IF m.ok THEN Group(m, title, 1) \o c_GB ELSE c_Unknown

\* extract_storage
extract_storage(title) ==
  LET m == Search(STORAGE_RE, title)
  IN  IF m.ok THEN Group(m, title, 1) \o c_GB ELSE c_Unknown

\* the cascade with Good looked for first
condition_good_first(title) ==
  IF Contains(title, c_Good, FALSE) THEN c_Good
  ELSE IF Contains(title, c_Excellent, FALSE) THEN c_Excellent
  ELSE IF Contains(title, c_Very, FALSE) THEN c_VeryGood
  ELSE c_Unknown

\* extract_condition
extract_condition(title) ==
  IF Contains(title, c_Excellent, FALSE) THEN c_Excellent
  ELSE IF Contains(title, c_Very, FALSE) THEN c_VeryGood
  ELSE IF Contains(title, c_Good, FALSE) THEN c_Good
  ELSE c_Unknown

\* tmp['Title'].str.contains('Parts Only', case=False, regex=False)
parts_only(title) == Contains(title, c_PartsOnly, TRUE)

(***************************************************************************)
(* Subset Exporter                                                         *)
(***************************************************************************)
\* str.casefold() on the characters of the inputs
casefold(s) == lower(s)

\* the Sold Date of a row when the DataFrame has no 'Sold Date' column
NoColumn == <<"NoColumn">>

\* pandas' NaT, the absent date
NaT == <<"NaT">>

c_Sold == <<"S","o","l","d">>

\* r'^\s*Sold\s+'
SOLD_RE == Cat(<<Bos, Star(WS), LitCS(c_Sold), Plus(WS)>>)

\* .str.replace(r'^\s*Sold\s+', '', regex=True)
strip_sold(text) ==
  LET m == MatchAt(SOLD_RE, text, 1)
  IN  IF m.ok THEN SubSeq(text, m.end, Len(text)) ELSE text

RECURSIVE collapse_runs(_)
\* .str.replace(r'\s{2,}', ' ', regex=True)
collapse_runs(s) ==
  IF s = <<>> THEN <<>>
  ELSE IF Head(s) \in Whitespace /\ Len(s) >= 2 /\ s[2] \in Whitespace
       THEN <<" ">> \o collapse_runs(lstrip(s))
       ELSE <<Head(s)>> \o collapse_runs(Tail(s))

\* the cell as it is, "Sold" included
sold_date_as_is(script, text) == strip(text)

\* the text handed to pd.to_datetime; iphone_all_only.py leaves the runs of
\* whitespace inside it
sold_date_text(script, text) ==
  IF script = "iphone" THEN strip(strip_sold(text))
  ELSE strip(collapse_runs(strip_sold(text)))

MonthNames ==
  << <<"j","a","n">>, <<"f","e","b">>, <<"m","a","r">>, <<"a","p","r">>, <<"m","a","y">>, <<"j","u","n">>, <<"j","u","l">>, <<"a","u","g">>, <<"s","e","p">>, <<"o","c","t">>, <<"n","o","v">>, <<"d","e","c">> >>

DigitOrder == <<"0","1","2","3","4","5","6","7","8","9">>
DigitVal == [c \in Digits |-> (CHOOSE k \in 1..10 : DigitOrder[k] = c) - 1]

RECURSIVE int(_)
\* int(s) of a text of digits
int(s) == IF s = <<>> THEN 0 ELSE int(SubSeq(s, 1, Len(s) - 1)) * 10 + DigitVal[s[Len(s)]]

IsDigits(s) == \A k \in 1..Len(s) : s[k] \in Digits

\* pd.to_datetime(text, errors='coerce') on one cell: the date of a text
\* "<Mon> <day>, <year>", NaT for a text that is no date
to_datetime(text) ==
  LET toks == split(text)
  IN  IF /\ Len(toks) = 3
         /\ \E k \in 1..12 : MonthNames[k] = lower(toks[1])
         /\ Len(toks[2]) \in 2..3 /\ toks[2][Len(toks[2])] = ","
         /\ IsDigits(SubSeq(toks[2], 1, Len(toks[2]) - 1))
         /\ int(SubSeq(toks[2], 1, Len(toks[2]) - 1)) \in 1..31
         /\ Len(toks[3]) = 4 /\ IsDigits(toks[3])
      THEN [year  |-> int(toks[3]),
            month |-> CHOOSE k \in 1..12 : MonthNames[k] = lower(toks[1]),
            day   |-> int(SubSeq(toks[2], 1, Len(toks[2]) - 1))]
      ELSE NaT

\* if 'Sold Date' in tmp.columns: tmp['Sold Date'] = pd.to_datetime(...);
\* pixel_only.py leaves the column as it is
parse_sold_date(script, cell) ==
  IF script = "pixel_only" \/ cell = NoColumn THEN cell
  ELSE to_datetime(sold_date_text(script, cell))

\* A row of a DataFrame is a record: index (the row label read_csv gave it)
\* Title and SoldDate, to which the pipeline adds Storage, Condition,
\* PartsOnly, Model and Flag (the column named after the target model).
RECURSIVE AddColumns(_, _)
AddColumns(script, df) ==
  IF df = <<>> THEN <<>>
  ELSE << [index     |-> Head(df).index,
           Title     |-> Head(df).Title,
           SoldDate  |-> parse_sold_date(script, Head(df).SoldDate),
           Storage   |-> extract_storage(Head(df).Title),
           Condition |-> extract_condition(Head(df).Title),
           PartsOnly |-> parts_only(Head(df).Title),
           Model     |-> extract_single_model_or_none(script, Head(df).Title)] >>
       \o AddColumns(script, Tail(df))

RECURSIVE ModelNotNa(_)
\* tmp[tmp['Model'].notna()]
ModelNotNa(rows) ==
  IF rows = <<>> THEN <<>>
  ELSE (IF Head(rows).Model # None THEN <<Head(rows)>> ELSE <<>>)
       \o ModelNotNa(Tail(rows))

\* the comparison after casefold in every script
ModelIsTargetFolded(script, model, target_model) ==
  casefold(model) = casefold(target_model)

\* the flag column: Model == target_model, after casefold in the iPhone script
ModelIsTarget(script, model, target_model) ==
  IF script = "iphone" THEN casefold(model) = casefold(target_model)
  ELSE model = target_model

RECURSIVE FlagRows(_, _, _)
\* tmp[flag_col] = ...; tmp = tmp[tmp[flag_col]]
FlagRows(script, rows, target_model) ==
  IF rows = <<>> THEN <<>>
  ELSE (IF ModelIsTarget(script, Head(rows).Model, target_model)
        THEN <<Head(rows)>> ELSE <<>>)
       \o FlagRows(script, Tail(rows), target_model)

\* clean_and_filter_for_model / clean_and_filter_for_iphone
clean_and_filter_for_model(script, df, target_model) ==
  FlagRows(script, ModelNotNa(AddColumns(script, df)), target_model)

c_only_csv == <<"_","o","n","l","y",".","c","s","v">>

\* one output name for every model
out_name_shared(model_name) == <<"m","o","d","e","l">> \o c_only_csv

\* the output named like a source file: the tokens joined by hyphens
out_name_plain(model_name) == replace(lower(model_name), <<" ">>, <<"-">>) \o w_csv

\* out_name = f"{model_name.lower().replace(' ', '_')}_only.csv"
out_name(model_name) == replace(lower(model_name), <<" ">>, <<"_">>) \o c_only_csv

RECURSIVE ReadRows(_, _)
\* pd.read_csv(src): the rows of the file, labelled 0, 1, ...
ReadRows(content, k) ==
  IF content = <<>> THEN <<>>
  ELSE << [index    |-> k,
           Title    |-> Head(content).Title,
           SoldDate |-> IF "SoldDate" \in DOMAIN Head(content)
                        THEN Head(content).SoldDate ELSE NoColumn] >>
       \o ReadRows(Tail(content), k + 1)

read_csv(content) == ReadRows(content, 0)

RECURSIVE to_csv(_)
\* subset.to_csv(out_path, index=False): the rows without their labels; the
\* column named after the target model holds True in every row kept
to_csv(rows) ==
  IF rows = <<>> THEN <<>>
  ELSE << [Title     |-> Head(rows).Title,
           SoldDate  |-> Head(rows).SoldDate,
           Storage   |-> Head(rows).Storage,
           Condition |-> Head(rows).Condition,
           PartsOnly |-> Head(rows).PartsOnly,
           Model     |-> Head(rows).Model,
           Flag      |-> TRUE] >>
       \o to_csv(Tail(rows))

RECURSIVE AnyOrder(_)
\* the entries S in one of the orders a directory may list them
AnyOrder(S) ==
  IF S = {} THEN <<>>
  ELSE LET e == CHOOSE x \in S : TRUE IN <<e>> \o AnyOrder(S \ {e})

\* export_model_subset / export_iphone_subset as one step: the directory
\* after the export of model_name, whose name the resolver recognizes
export_model_subset(script, dir, model_name) ==
  LET r == find_csv_for_model(script,
             AnyOrder({ [name |-> n, folder |-> ""] : n \in DOMAIN dir }), model_name)
  IN  IF r.path = None THEN dir
      ELSE LET out  == out_name(model_name)
               kept == clean_and_filter_for_model(script, read_csv(dir[r.path]), model_name)
           IN  [n \in DOMAIN dir \cup {out} |-> IF n = out THEN to_csv(kept) ELSE dir[n]]

RECURSIVE RunBatch(_, _, _)
\* for model in MODELS: export_model_subset(DATA_DIR, model)
RunBatch(script, dir, names) ==
  IF names = <<>> THEN dir
  ELSE RunBatch(script, export_model_subset(script, dir, Head(names)), Tail(names))

(***************************************************************************)
(* State                                                                   *)
(***************************************************************************)
VARIABLES
  script,    \* which of the four scripts runs
  pc,        \* where the run is
  title,     \* a listing title given to the title functions
  model,     \* what extract_single_model_or_none returned for title
  fields,    \* what extract_storage and extract_condition returned for title
  entries,   \* the entries of a directory given to the resolver
  request,   \* the model name given to the resolver
  found,     \* what the resolver returned or raised for request
  df,        \* the DataFrame read from the source file
  target,    \* the target model of clean_and_filter_for_model
  subset,    \* the DataFrame clean_and_filter_for_model returned
  fs,        \* the data directory of a batch run: file name -> rows
  fs0,       \* the data directory as the batch run found it
  models,    \* MODELS / IPHONE_MODELS of a batch run
  cursor,    \* the position of the batch loop in models
  src,       \* the path find_csv_for_model returned in this iteration
  reads,     \* the files read so far, in order
  writes,    \* the files written so far, in order
  returned,  \* what export_model_subset returned, per finished iteration
  exc,       \* the exception that ended the script, "" while there is none
  web,       \* what eBay answers for each result page
  max_pages, \* the argument of scrape_ebay_with_playwright
  page_num,  \* the page the loop of the scraper is at
  requested, \* the pages page.goto was called for, in order
  all_items, \* the items collected so far
  result     \* what scrape_ebay_with_playwright returned

vars ==
  <<script, pc, title, model, fields, entries, request, found, df, target, subset,
    fs, fs0, models, cursor, src, reads, writes, returned, exc,
    web, max_pages, page_num, requested, all_items, result>>

titleVars   == <<title, model, fields>>
resolveVars == <<entries, request, found>>
filterVars  == <<df, target, subset>>
batchVars   == <<fs, fs0, models, cursor, src, reads, writes, returned, exc>>
scrapeVars  == <<web, max_pages, page_num, requested, all_items, result>>

Family(s) == IF s = "iphone" THEN "iPhone" ELSE "Pixel"

Pending == <<"Pending">>

IdleTitle   == title = <<>> /\ model = Pending /\ fields = Pending
IdleResolve == entries = {} /\ request = <<>> /\ found = Pending
IdleFilter  == df = <<>> /\ target = <<>> /\ subset = <<>>
IdleBatch   ==
  /\ fs = <<>> /\ fs0 = <<>> /\ models = <<>> /\ cursor = 1 /\ src = None
  /\ reads = <<>> /\ writes = <<>> /\ returned = <<>> /\ exc = ""
IdleScrape  ==
  /\ web = <<>> /\ max_pages = 0 /\ page_num = 0
  /\ requested = <<>> /\ all_items = <<>> /\ result = Pending

(***************************************************************************)
(* Titles                                                                  *)
(***************************************************************************)
MaxMentions == 2

\* how a seller may write the family keyword, brand and whitespace included
Keywords(fam) ==
  IF fam = "iPhone"
  THEN { <<"i","P","h","o","n","e"," ">>,
         <<"A","p","p","l","e"," ","i","P","h","o","n","e"," ">>,
         <<"I","P","H","O","N","E"," "," ">> }
  ELSE { <<"P","i","x","e","l"," ">>,
         <<"G","o","o","g","l","e"," ","P","i","x","e","l"," ">>,
         <<"P","I","X","E","L"," "," ">> }

Numbers == { <<"9">>, <<"1","4">> }

\* the ways a variant is written after the number
VariantTexts(fam) ==
  IF fam = "iPhone"
  THEN { <<>>, c_Pro, c_ProMax, c_Plus, c_Mini, c_Max,
         <<" ","P","R","O"," "," ","M","A","X">>, <<"P","r","o">> }
  ELSE { <<>>, c_Pro, c_XL, c_ProXL, <<"a">>, <<" ","a">>,
         <<" ","p","r","o"," "," ","x","l">>, <<"P","r","o">> }

\* what follows the mention
Tails ==
  { <<>>, <<" ","5","G">>, <<"d","u","c","t","i","o","n">>, <<"_","x">>,
    <<" ","2","5","6","G","B"," ","E","x","c","e","l","l","e","n","t">> }

\* a model mention as it is written in a title
Mentions(fam) ==
  { kw \o num \o vt \o tl :
      kw \in Keywords(fam), num \in Numbers, vt \in VariantTexts(fam), tl \in Tails }

\* further mentions, in their plain spelling
PlainMentions(fam) ==
  IF fam = "iPhone"
  THEN { <<" ">> \o c_iPhone \o <<" ","1","4">> \o vt : vt \in {<<>>, c_Pro, c_ProMax} }
         \cup { <<" ">> \o c_iPhone \o <<" ","9">> }
  ELSE { <<" ">> \o c_Pixel \o <<" ","9">> \o vt : vt \in {<<>>, c_Pro, c_ProXL} }
         \cup { <<" ">> \o c_Pixel \o <<" ","1","4">> }

RECURSIVE Concats(_, _)
\* the concatenations of at most n members of S
Concats(S, n) ==
  IF n = 0 THEN { <<>> }
  ELSE LET shorter == Concats(S, n - 1)
       IN  shorter \cup { a \o b : a \in shorter, b \in S }

c_case_for == <<"c","a","s","e"," ","f","o","r"," ">>

\* the titles the title functions are run on: no mention, or one mention in
\* any spelling, followed by up to MaxMentions - 1 further mentions
Titles(fam) ==
  { <<>>, c_case_for \o <<"9">> \o c_ProXL, c_Pixel \o <<" ">> \o c_case_for \o <<"9">> \o c_ProXL }
  \cup { m \o more : m \in Mentions(fam), more \in Concats(PlainMentions(fam), MaxMentions - 1) }

InitTitle ==
  /\ script \in Scripts
  /\ pc = "title"
  /\ title \in Titles(Family(script))
  /\ model = Pending
  /\ fields = Pending
  /\ IdleResolve /\ IdleFilter /\ IdleBatch /\ IdleScrape

\* tmp['Title'].apply(extract_single_model_or_none), for one title
ExtractSingleModel ==
  /\ pc = "title"
  /\ model' = extract_single_model_or_none(script, title)
  /\ pc' = "titled"
  /\ UNCHANGED <<scrapeVars, script, title, fields, resolveVars, filterVars, batchVars>>

NextTitle == ExtractSingleModel

SpecTitle == InitTitle /\ [][NextTitle]_vars

(***************************************************************************)
(* Titles for the field extractors                                         *)
(***************************************************************************)
MaxWords == 2

\* words of a title that bear on the storage and on the condition
FieldWords ==
  { <<"1","2","8","G","B">>,
    <<"6","4"," ","g","b">>,
    <<"1","T","B">>,
    <<"8","G","B">>,
    <<"1","2","3","4","5","G","B">>,
    <<"2","5","6","G","B","s">>,
    <<"1","2","8","G","B","_","x">>,
    <<"G","B">>,
    <<"1","6">>,
    <<"E","x","c","e","l","l","e","n","t">>,
    <<"E","X","C","E","L","L","E","N","T">>,
    <<"V","e","r","y">>,
    <<"G","o","o","d">>,
    <<"g","o","o","d">>,
    <<"P","a","r","t","s"," ","O","n","l","y">> }

\* the titles made of at most n words, one space between two words
RECURSIVE WordTitles(_)
WordTitles(n) ==
  IF n = 0 THEN { <<>> }
  ELSE LET shorter == WordTitles(n - 1)
       IN  shorter \cup { IF t = <<>> THEN w ELSE t \o <<" ">> \o w :
                            t \in shorter, w \in FieldWords }

InitFields ==
  /\ script \in Scripts
  /\ pc = "fields"
  /\ title \in WordTitles(MaxWords)
  /\ model = Pending
  /\ fields = Pending
  /\ IdleResolve /\ IdleFilter /\ IdleBatch /\ IdleScrape

\* tmp['Title'].apply(extract_storage), .apply(extract_condition) and
\* .str.contains('Parts Only', ...), for one title
ExtractFields ==
  /\ pc = "fields"
  /\ fields' = [Storage   |-> extract_storage(title),
                Condition |-> extract_condition(title),
                PartsOnly |-> parts_only(title)]
  /\ pc' = "fielded"
  /\ UNCHANGED <<scrapeVars, script, title, model, resolveVars, filterVars, batchVars>>

NextFields == ExtractFields

SpecFields == InitFields /\ [][NextFields]_vars

(***************************************************************************)
(* Directories                                                             *)
(***************************************************************************)
MaxCompanions == 1

RECURSIVE Orders(_)
\* the orders in which a directory may list the entries S
Orders(S) ==
  IF S = {} THEN { <<>> }
  ELSE UNION { { <<e>> \o o : o \in Orders(S \ {e}) } : e \in S }

SubsetsUpTo(S, n) == { T \in SUBSET S : Cardinality(T) <= n }

FileKeyword(fam) == IF fam = "iPhone" THEN w_iphone ELSE w_pixel
FileNumber(fam)  == IF fam = "iPhone" THEN <<"1","4">> ELSE <<"9">>

Separators == { <<"_">>, <<"-">>, <<" ">> }

\* the variant tokens a file name may spell after the number
FileVariants(fam) ==
  IF fam = "iPhone"
  THEN { <<>>, <<w_pro>>, <<w_pro, w_max>>, <<w_max>>, <<w_plus>> }
  ELSE { <<>>, <<w_pro>>, <<w_xl>>, <<w_pro, w_xl>>, <<w_a>> }

RECURSIVE JoinTokens(_, _)
\* every token preceded by the separator
JoinTokens(toks, sep) ==
  IF toks = <<>> THEN <<>> ELSE sep \o Head(toks) \o JoinTokens(Tail(toks), sep)

FilePrefixes == { <<>>, <<"e","b","a","y","-">> }
FileSuffixes == { <<>>, <<"_","s","o","l","d">> }

\* file names that spell one model: prefix, family, number, variant, suffix
SpelledNames(fam) ==
  { pre \o FileKeyword(fam) \o sep \o FileNumber(fam) \o JoinTokens(v, sep) \o suf \o w_csv :
      pre \in FilePrefixes, sep \in Separators, v \in FileVariants(fam),
      suf \in FileSuffixes }

\* other entries of the directory: upper case, two models in one name, another
\* extension, a sub-folder
OtherEntries(fam) ==
  IF fam = "iPhone"
  THEN { [name |-> <<"i","P","h","o","n","e"," ","1","4"," ","P","r","o",".","c","s","v">>, folder |-> ""],
         [name |-> <<"i","p","h","o","n","e"," ","1","4"," ","p","r","o"," ","v","s"," ","i","p","h","o","n","e","-","1","4","-","p","r","o","-","m","a","x",".","c","s","v">>, folder |-> ""],
         [name |-> <<"i","p","h","o","n","e","-","1","4",".","t","x","t">>, folder |-> ""],
         [name |-> <<"a","-","i","p","h","o","n","e","-","1","4",".","c","s","v">>, folder |-> "sub"] }
  ELSE { [name |-> <<"P","i","x","e","l"," ","9"," ","P","r","o",".","c","s","v">>, folder |-> ""],
         [name |-> <<"p","i","x","e","l"," ","9"," ","v","s"," ","p","i","x","e","l","-","9","-","p","r","o",".","c","s","v">>, folder |-> ""],
         [name |-> <<"p","i","x","e","l","-","9",".","t","x","t">>, folder |-> ""],
         [name |-> <<"a","-","p","i","x","e","l","-","9",".","c","s","v">>, folder |-> "sub"] }

\* the directories the resolver is run on
Directories(fam) ==
  { rich \cup others :
      rich \in { {} } \cup { { [name |-> n, folder |-> ""] } : n \in SpelledNames(fam) },
      others \in SubsetsUpTo(OtherEntries(fam), MaxCompanions) }

\* the model names the resolver is asked for
Requests(fam) ==
  IF fam = "iPhone"
  THEN { c_iPhone \o <<" ","1","4">>,
         c_iPhone \o <<" ","1","4">> \o c_Pro,
         c_iPhone \o <<" ","1","4">> \o c_ProMax,
         w_iphone \o <<" ","1","4">> \o <<" ","p","r","o">>,
         c_iPhone \o <<" ","1","4">> \o c_Plus,
         c_iPhone \o <<" ","8">>,
         c_iPhone \o <<" ","1","4">> \o <<" ","P","r","o"," "," ","M","a","x">> }
  ELSE { c_Pixel \o <<" ","9">>,
         c_Pixel \o <<" ","9">> \o c_Pro,
         c_Pixel \o <<" ","9">> \o c_XL,
         c_Pixel \o <<" ","9">> \o c_ProXL,
         c_Pixel \o <<" ","9"," ","a">>,
         c_Pixel \o <<" ","9","a">>,
         w_pixel \o <<" ","9">>,
         c_Pixel \o <<" ","9">> \o <<" ","P","r","o"," "," ","X","L">> }

InitResolve ==
  /\ script \in Scripts
  /\ pc = "resolve"
  /\ entries \in Directories(Family(script))
  /\ request \in Requests(Family(script))
  /\ found = Pending
  /\ IdleTitle /\ IdleFilter /\ IdleBatch /\ IdleScrape

\* find_csv_for_model(directory, model_name), the directory listing its
\* entries in any order
FindCsv ==
  /\ pc = "resolve"
  /\ \E listing \in Orders(entries) :
        found' = find_csv_for_model(script, listing, request)
  /\ pc' = "resolved"
  /\ UNCHANGED <<scrapeVars, script, entries, request, titleVars, filterVars, batchVars>>

NextResolve == FindCsv

SpecResolve == InitResolve /\ [][NextResolve]_vars

(***************************************************************************)
(* Datasets                                                                *)
(***************************************************************************)
MaxRows == 2

t_Pixel9ProXL_256 ==
  <<"G","o","o","g","l","e"," ","P","i","x","e","l"," ","9"," ","P","r","o"," ","X","L",
    " ","2","5","6","G","B"," ","E","x","c","e","l","l","e","n","t">>
t_PixelCase == c_Pixel \o <<" ">> \o c_case_for \o <<"9">> \o c_ProXL

RowTitles(fam) ==
  IF fam = "iPhone"
  THEN { <<"i","P","h","o","n","e"," ","1","4"," ","P","r","o"," ","M","a","x"," ","2","5","6","G","B"," ","E","x","c","e","l","l","e","n","t">>,
         <<"i","P","h","o","n","e"," ","c","a","s","e"," ","f","o","r"," ","1","4"," ","P","r","o"," ","M","a","x">>,
         <<"i","P","h","o","n","e"," ","1","4"," ","1","2","8","G","B"," ","V","e","r","y"," ","G","o","o","d">>,
         <<"i","P","h","o","n","e"," ","1","4"," ","i","P","h","o","n","e"," ","1","4"," ","P","r","o">>,
         <<"i","p","h","o","n","e"," ","1","4"," ","p","r","o"," ","m","a","x"," ","6","4","g","b">> }
  ELSE { t_Pixel9ProXL_256,
         t_PixelCase,
         <<"P","i","x","e","l"," ","9"," ","1","2","8","G","B"," ","V","e","r","y"," ","G","o","o","d">>,
         <<"P","i","x","e","l"," ","9"," ","P","i","x","e","l"," ","9"," ","P","r","o">>,
         <<"p","i","x","e","l"," ","9"," ","p","r","o"," ","x","l"," ","6","4","g","b">> }

RECURSIVE SeqsUpTo(_, _)
\* the sequences of at most n members of S
SeqsUpTo(S, n) ==
  IF n = 0 THEN { <<>> }
  ELSE LET shorter == SeqsUpTo(S, n - 1)
       IN  shorter \cup { Append(q, x) : q \in shorter, x \in S }

\* the contents a CSV file may have: rows with a Title column
Contents(fam) == SeqsUpTo({ [Title |-> t] : t \in RowTitles(fam) }, MaxRows)

Targets(fam) ==
  IF fam = "iPhone"
  THEN { c_iPhone \o <<" ","1","4">>,
         c_iPhone \o <<" ","1","4">> \o c_ProMax,
         w_iphone \o <<" ","1","4"," ","p","r","o"," ","m","a","x">> }
  ELSE { c_Pixel \o <<" ","9">>,
         c_Pixel \o <<" ","9">> \o c_ProXL,
         w_pixel \o <<" ","9"," ","p","r","o"," ","x","l">> }

InitFilter ==
  /\ script \in Scripts
  /\ pc = "filter"
  /\ df \in { read_csv(c) : c \in Contents(Family(script)) }
  /\ target \in Targets(Family(script))
  /\ subset = <<>>
  /\ IdleTitle /\ IdleResolve /\ IdleBatch /\ IdleScrape

\* subset = clean_and_filter_for_model(df, model_name)
CleanAndFilter ==
  /\ pc = "filter"
  /\ subset' = clean_and_filter_for_model(script, df, target)
  /\ pc' = "filtered"
  /\ UNCHANGED <<scrapeVars, script, df, target, titleVars, resolveVars, batchVars>>

NextFilter == CleanAndFilter

SpecFilter == InitFilter /\ [][NextFilter]_vars

(***************************************************************************)
(* The batch run: for model in MODELS: export_model_subset(DATA_DIR, model)*)
(***************************************************************************)
d_Oct21      == <<"S","o","l","d"," ","O","c","t"," ","2","1",","," ","2","0","2","5">>
d_Oct21Runs  == <<" ","S","o","l","d"," "," ","O","c","t"," "," ","2","1",","," ","2","0","2","5"," ">>
d_Garbage    == <<"S","o","l","d"," ","S","o","m","e","G","a","r","b","a","g","e">>
d_LowerSold  == <<"s","o","l","d"," ","O","c","t"," ","2","1",","," ","2","0","2","5">>

\* the texts of the Sold Date column
SoldDates == { d_Oct21, d_Oct21Runs, d_Garbage, d_LowerSold }

DatedTitles(fam) ==
  IF fam = "iPhone"
  THEN { <<"i","P","h","o","n","e"," ","1","4"," ","P","r","o"," ","M","a","x"," ","2","5","6","G","B"," ","E","x","c","e","l","l","e","n","t">>,
         <<"i","P","h","o","n","e"," ","1","4"," ","1","2","8","G","B"," ","V","e","r","y"," ","G","o","o","d">> }
  ELSE { t_Pixel9ProXL_256,
         <<"P","i","x","e","l"," ","9"," ","1","2","8","G","B"," ","V","e","r","y"," ","G","o","o","d">> }

\* the contents of a CSV file that has a Sold Date column
DatedContents(fam) ==
  SeqsUpTo({ [Title |-> t, SoldDate |-> d] : t \in DatedTitles(fam), d \in SoldDates },
           MaxRows)

InitDates ==
  /\ script \in Scripts
  /\ pc = "filter"
  /\ df \in { read_csv(c) : c \in DatedContents(Family(script)) }
  /\ target \in Targets(Family(script))
  /\ subset = <<>>
  /\ IdleTitle /\ IdleResolve /\ IdleBatch /\ IdleScrape

SpecDates == InitDates /\ [][NextFilter]_vars

MaxModels == 3
MaxFiles  == 1

f_pixel_9_pro_xl_sold ==
  <<"p","i","x","e","l","_","9","_","p","r","o","_","x","l","_","s","o","l","d",".","c","s","v">>

f_pixel_9_pro == <<"p","i","x","e","l","-","9","-","p","r","o",".","c","s","v">>
f_iphone_14_pro == <<"i","p","h","o","n","e","-","1","4","-","p","r","o",".","c","s","v">>

BatchFileNames(fam) ==
  IF fam = "iPhone"
  THEN { <<"i","p","h","o","n","e","_","1","4","_","p","r","o","_","m","a","x","_","s","o","l","d",".","c","s","v">>,
         <<"i","p","h","o","n","e","-","1","4","-","p","r","o","-","m","a","x",".","c","s","v">>,
         f_iphone_14_pro }
  ELSE { f_pixel_9_pro_xl_sold,
         <<"p","i","x","e","l","-","9","-","p","r","o","-","x","l",".","c","s","v">>,
         f_pixel_9_pro }

\* the rows of the files of a batch run
BatchContents(fam, name) ==
  IF fam = "iPhone"
  THEN IF name = f_iphone_14_pro
       THEN << [Title |-> <<"i","P","h","o","n","e"," ","1","4"," ","P","r","o"," ","1","2","8","G","B"," ","V","e","r","y"," ","G","o","o","d">>],
               [Title |-> <<"i","P","h","o","n","e"," ","1","4"," ","P","r","o"," ","M","a","x">>] >>
       ELSE << [Title |-> <<"i","P","h","o","n","e"," ","1","4"," ","P","r","o"," ","M","a","x"," ","2","5","6","G","B"," ","E","x","c","e","l","l","e","n","t">>],
               [Title |-> <<"i","P","h","o","n","e"," ","c","a","s","e"," ","f","o","r"," ","1","4"," ","P","r","o"," ","M","a","x">>] >>
  ELSE IF name = f_pixel_9_pro
       THEN << [Title |-> <<"P","i","x","e","l"," ","9"," ","P","r","o"," ","1","2","8","G","B"," ","V","e","r","y"," ","G","o","o","d">>],
               [Title |-> <<"P","i","x","e","l"," ","9"," ","P","r","o"," ","X","L">>] >>
       ELSE << [Title |-> t_Pixel9ProXL_256], [Title |-> t_PixelCase] >>

\* the model lists of a batch run; the last name of each family is one that
\* no resolver of the family recognizes
BatchModels(fam) ==
  IF fam = "iPhone"
  THEN { c_iPhone \o <<" ","1","4">> \o c_Pro,
         c_iPhone \o <<" ","1","4">> \o c_ProMax,
         c_iPhone \o <<" ","8">> }
  ELSE { c_Pixel \o <<" ","9">> \o c_Pro,
         c_Pixel \o <<" ","9">> \o c_ProXL,
         c_Pixel \o <<" ","9","a">> }

\* the data directories of a batch run: at most MaxFiles files
BatchDirs(fam) ==
  { [name \in names |-> BatchContents(fam, name)] :
      names \in SubsetsUpTo(BatchFileNames(fam), MaxFiles) }

InitBatch ==
  /\ script \in Scripts
  /\ pc = "find"
  /\ fs \in BatchDirs(Family(script))
  /\ fs0 = fs
  /\ models \in SeqsUpTo(BatchModels(Family(script)), MaxModels) \ { <<>> }
  /\ cursor = 1
  /\ src = None
  /\ df = <<>> /\ target = <<>> /\ subset = <<>>
  /\ reads = <<>> /\ writes = <<>> /\ returned = <<>> /\ exc = ""
  /\ IdleTitle /\ IdleResolve /\ IdleScrape

\* the entries of the data directory
DirEntries == { [name |-> n, folder |-> ""] : n \in DOMAIN fs }

\* the loop goes on to the next model, or the script ends
Advance ==
  /\ cursor' = cursor + 1
  /\ pc' = IF cursor + 1 > Len(models) THEN "done" ELSE "find"

\* src = find_csv_for_model(directory, model_name); an exception it raises is
\* caught nowhere and ends the script
ExportFind ==
  /\ pc = "find"
  /\ \E listing \in Orders(DirEntries) :
        LET r == find_csv_for_model(script, listing, models[cursor])
        IN  IF r.exc # ""
            THEN /\ exc' = r.exc
                 /\ pc' = "crashed"
                 /\ src' = None
            ELSE /\ exc' = exc
                 /\ pc' = "found"
                 /\ src' = r.path
  /\ UNCHANGED <<scrapeVars, script, fs, fs0, models, cursor, df, target, subset, reads, writes, returned,
                 titleVars, resolveVars>>

\* if src is None: print(...); return None
ExportSkip ==
  /\ pc = "found"
  /\ src = None
  /\ returned' = Append(returned, None)
  /\ Advance
  /\ UNCHANGED <<scrapeVars, script, fs, fs0, models, src, df, target, subset, reads, writes, exc,
                 titleVars, resolveVars>>

\* df = pd.read_csv(src)
ExportRead ==
  /\ pc = "found"
  /\ src # None
  /\ df' = read_csv(fs[src])
  /\ reads' = Append(reads, src)
  /\ pc' = "loaded"
  /\ UNCHANGED <<scrapeVars, script, fs, fs0, models, cursor, src, target, subset, writes, returned, exc,
                 titleVars, resolveVars>>

\* subset = clean_and_filter_for_model(df, model_name)
ExportFilter ==
  /\ pc = "loaded"
  /\ target' = models[cursor]
  /\ subset' = clean_and_filter_for_model(script, df, models[cursor])
  /\ pc' = "cleaned"
  /\ UNCHANGED <<scrapeVars, script, fs, fs0, models, cursor, src, df, reads, writes, returned, exc,
                 titleVars, resolveVars>>

\* subset.to_csv(out_path, index=False); return out_path
ExportWrite ==
  /\ pc = "cleaned"
  /\ LET out == out_name(models[cursor])
     IN  /\ fs' = [n \in DOMAIN fs \cup {out} |-> IF n = out THEN to_csv(subset) ELSE fs[n]]
         /\ writes' = Append(writes, out)
         /\ returned' = Append(returned, out)
  /\ Advance
  /\ UNCHANGED <<scrapeVars, script, fs0, models, src, df, target, subset, reads, exc,
                 titleVars, resolveVars>>

NextBatch == ExportFind \/ ExportSkip \/ ExportRead \/ ExportFilter \/ ExportWrite

Init == InitBatch
Next == NextBatch
Spec == Init /\ [][Next]_vars

\* model names every resolver of the family but that of pixel_only.py
\* recognizes, one of them written twice, in two letter cases
OrderModels(fam) ==
  IF fam = "iPhone"
  THEN { c_iPhone \o <<" ","1","4">> \o c_Pro,
         c_iPhone \o <<" ","1","4">> \o c_ProMax,
         <<"i","p","h","o","n","e"," ","1","4"," ","p","r","o">> }
  ELSE { c_Pixel \o <<" ","9">> \o c_Pro,
         c_Pixel \o <<" ","9">> \o c_ProXL,
         <<"p","i","x","e","l"," ","9"," ","p","r","o">> }

\* the lists of at most MaxModels of these names, none twice
InitOrder ==
  /\ script \in Scripts
  /\ pc = "find"
  /\ fs \in BatchDirs(Family(script))
  /\ fs0 = fs
  /\ models \in { q \in SeqsUpTo(OrderModels(Family(script)), MaxModels) \ { <<>> } :
                    \A a \in 1..Len(q), b \in 1..Len(q) : a # b => q[a] # q[b] }
  /\ cursor = 1
  /\ src = None
  /\ df = <<>> /\ target = <<>> /\ subset = <<>>
  /\ reads = <<>> /\ writes = <<>> /\ returned = <<>> /\ exc = ""
  /\ IdleTitle /\ IdleResolve /\ IdleScrape

SpecOrder == InitOrder /\ [][NextBatch]_vars

(***************************************************************************)
(* The scraper: scrape_ebay_with_playwright(max_pages)                     *)
(***************************************************************************)
MaxPages == 3
MaxItems == 1

\* an li of the results list: "ok" has a heading, a title of ten characters or
\* more and an /itm/ link; "no_link" is skipped by a continue
ItemKinds == {"ok", "no_link"}

\* what eBay serves for one request: whether page.goto raises, whether
\* ul.srp-results shows up before the timeout, whether the parsed page holds
\* the list, its li elements, and the state of a.pagination__next
Pages ==
  [ nav          : {"ok", "raises"},
    selector     : BOOLEAN,
    results_list : BOOLEAN,
    items        : SeqsUpTo(ItemKinds, MaxItems),
    next         : {"enabled", "disabled", "missing"} ]

\* the dictionaries the item loop appends for the li elements from the i-th on
RECURSIVE page_items(_, _, _)
page_items(items, n, i) ==
  IF i > Len(items) THEN <<>>
  ELSE (IF items[i] = "ok" THEN << [Page |-> n, Item |-> i] >> ELSE <<>>)
       \o page_items(items, n, i + 1)

\* a next-page link that is missing stops the loop, one that is disabled does not
last_page_missing_only(page) == page.next = "missing"

\* not next_button or 'pagination__next--disabled' in its classes
reached_last_page(page) == page.next \in {"missing", "disabled"}

InitScrape ==
  /\ script = "scrape_with_playwright"
  /\ pc = "for"
  /\ max_pages \in 0..MaxPages
  /\ page_num = 0
  /\ web = <<>>
  /\ requested = <<>>
  /\ all_items = <<>>
  /\ result = Pending
  /\ IdleTitle /\ IdleResolve /\ IdleFilter /\ IdleBatch

\* for page_num in range(1, max_pages + 1)
ForPage ==
  /\ pc = "for"
  /\ IF page_num < max_pages
       THEN page_num' = page_num + 1 /\ pc' = "goto"
       ELSE page_num' = page_num /\ pc' = "close"
  /\ UNCHANGED <<web, max_pages, requested, all_items, result>>
  /\ UNCHANGED <<script, titleVars, resolveVars, filterVars, batchVars>>

\* page.goto(search_url, ...): an exception goes to the outer except, which breaks
Goto ==
  /\ pc = "goto"
  /\ \E page \in Pages :
       /\ web' = Append(web, page)
       /\ pc' = IF page.nav = "raises" THEN "close" ELSE "wait"
  /\ requested' = Append(requested, page_num)
  /\ UNCHANGED <<max_pages, page_num, all_items, result>>
  /\ UNCHANGED <<script, titleVars, resolveVars, filterVars, batchVars>>

\* page.wait_for_selector("ul.srp-results"): on a timeout the debug files are
\* saved and the loop breaks; an exception while saving them breaks it as well
WaitForSelector ==
  /\ pc = "wait"
  /\ pc' = IF web[page_num].selector THEN "parse" ELSE "close"
  /\ UNCHANGED <<scrapeVars, script, titleVars, resolveVars, filterVars, batchVars>>

\* soup.find('ul', {'class': 'srp-results'}) and the loop over its li elements
Parse ==
  /\ pc = "parse"
  /\ IF web[page_num].results_list
       THEN /\ all_items' = all_items \o page_items(web[page_num].items, page_num, 1)
            /\ pc' = "next"
       ELSE /\ all_items' = all_items
            /\ pc' = "close"
  /\ UNCHANGED <<web, max_pages, page_num, requested, result>>
  /\ UNCHANGED <<script, titleVars, resolveVars, filterVars, batchVars>>

\* if page_num < max_pages: break when the next-page link says so
CheckNext ==
  /\ pc = "next"
  /\ pc' = IF page_num < max_pages /\ reached_last_page(web[page_num])
             THEN "close" ELSE "for"
  /\ UNCHANGED <<scrapeVars, script, titleVars, resolveVars, filterVars, batchVars>>

\* browser.close(); return all_items
Close ==
  /\ pc = "close"
  /\ result' = all_items
  /\ pc' = "returned"
  /\ UNCHANGED <<web, max_pages, page_num, requested, all_items>>
  /\ UNCHANGED <<script, titleVars, resolveVars, filterVars, batchVars>>

NextScrape == ForPage \/ Goto \/ WaitForSelector \/ Parse \/ CheckNext \/ Close

SpecScrape == InitScrape /\ [][NextScrape]_vars

(***************************************************************************)
(* Claims                                                                  *)
(***************************************************************************)
Range(q) == { q[j] : j \in 1..Len(q) }

\* C1: extract_single_model_or_none returns a model exactly when the set of
\* distinct canonical models mentioned in the title has one element, and then
\* it returns that element; a model mentioned twice counts once.
C1_SingleModelIffOneDistinct ==
  pc = "titled" =>
    LET distinct == Range(MentionedModels(script, title))
    IN  /\ (model # None) <=> (Cardinality(distinct) = 1)
        /\ model # None => model \in distinct

\* a title that mentions the same model twice got that model
C1_Witness ==
  /\ pc = "titled"
  /\ Len(MentionedModels(script, title)) = 2
  /\ Cardinality(Range(MentionedModels(script, title))) = 1
  /\ model # None

\* a title that mentions two distinct models got no model
C1_WitnessAmbiguous ==
  /\ pc = "titled"
  /\ Cardinality(Range(MentionedModels(script, title))) = 2
  /\ model = None

\* tails that begin a new word after the mention, or nothing
WordEndTails ==
  { <<>>, <<" ","5","G">>,
    <<" ","2","5","6","G","B"," ","E","x","c","e","l","l","e","n","t">> }

LongestVariant(fam) == IF fam = "iPhone" THEN c_ProMax ELSE c_ProXL
FamilyName(fam)     == IF fam = "iPhone" THEN c_iPhone ELSE c_Pixel

\* C3: in every script whose pattern lists the two-word variant (Pro XL in
\* test.py and pixel_all_only.py, Pro Max in iphone_all_only.py), a title whose
\* only mention is "<Family> N <two-word variant>" normalizes to that model.
C3_LongestVariantCaptured ==
  (pc = "titled" /\ script \in {"test", "pixel_all", "iphone"}) =>
    \A kw \in Keywords(Family(script)), num \in Numbers, tl \in WordEndTails :
      title = kw \o num \o LongestVariant(Family(script)) \o tl =>
        model = FamilyName(Family(script)) \o <<" ">> \o num
                  \o LongestVariant(Family(script))

\* the name holds the tokens joined by underscores, hyphens or spaces, in any
\* letter case
SpellsJoined(name, toks) ==
  \E s1 \in Separators, s2 \in Separators, s3 \in Separators :
    Contains(name,
             toks[1] \o s1 \o toks[2] \o s2 \o toks[3]
               \o (IF Len(toks) = 4 THEN s3 \o toks[4] ELSE <<>>),
             TRUE)

\* C2: asked for "Pixel 9", no resolver returns a file whose name holds
\* pixel, 9 and pro joined by separators; asked for "iPhone 14 Pro", none
\* returns a file whose name holds iphone, 14, pro and max joined by them.
C2_ResolverExclusive ==
  (pc = "resolved" /\ found.exc = "" /\ found.path # None) =>
    /\ request = c_Pixel \o <<" ","9">> =>
         ~SpellsJoined(found.path, <<w_pixel, <<"9">>, w_pro>>)
    /\ request = c_iPhone \o <<" ","1","4">> \o c_Pro =>
         ~SpellsJoined(found.path, <<w_iphone, <<"1","4">>, w_pro, w_max>>)

\* the file names that spell exactly the model asked for: its tokens in
\* lower case joined by one separator, after any prefix and before any suffix
SpellingsOf(model_name) ==
  { pre \o Tail(JoinTokens(split(lower(model_name)), sep)) \o suf \o w_csv :
      pre \in FilePrefixes, sep \in Separators, suf \in FileSuffixes }

HoldsSpelling(model_name) ==
  \E e \in entries : e.folder = "" /\ e.name \in SpellingsOf(model_name)

\* C8: for every recognized model name, when the directory holds a CSV whose
\* name spells that model with separators, any case and any prefix or suffix
\* text, the resolver returns a file.
C8_FormatTolerant ==
  (pc = "resolved" /\ Recognized(script, request) /\ HoldsSpelling(request)) =>
    (found.exc = "" /\ found.path # None)

\* the names find_csv_for_model may return: CSV files of the directory itself
\* whose name the pattern of the request matches
MatchingNames ==
  { e.name : e \in { d \in entries :
      /\ d.folder = ""
      /\ endswith(d.name, w_csv)
      /\ Search(FILE_RE(script, request), d.name).ok } }

\* C9: whatever the order of the listing, the resolver returns the smallest
\* matching CSV file name of the directory, and None exactly when there is
\* none; a file of a sub-folder or without the .csv extension is never returned.
C9_SmallestMatch ==
  (pc = "resolved" /\ found.exc = "") =>
    IF MatchingNames = {} THEN found.path = None
    ELSE /\ found.path \in MatchingNames
         /\ \A n \in MatchingNames : n = found.path \/ StrLess(found.path, n)

\* two files match and the smaller one is returned
C9_Witness ==
  /\ pc = "resolved" /\ found.exc = ""
  /\ Cardinality(MatchingNames) >= 2
  /\ found.path \in MatchingNames

\* the labels of the rows of a DataFrame, in order
RECURSIVE Labels(_)
Labels(rows) == IF rows = <<>> THEN <<>> ELSE <<Head(rows).index>> \o Labels(Tail(rows))

\* the rows of subset are rows of df, in the order of df, none twice
SubsetOfSource ==
  /\ \A a \in 1..Len(subset) : \E b \in 1..Len(df) :
       subset[a].index = df[b].index /\ subset[a].Title = df[b].Title
  /\ \A a \in 1..Len(subset), b \in 1..Len(subset) :
       a < b => subset[a].index < subset[b].index

Kept(row) == \E a \in 1..Len(subset) : subset[a].index = row.index

RunEnded == pc \in {"done", "crashed"}

\* the resolution of the k-th model of the list has been started
Attempted(k) == k < cursor \/ (k = cursor /\ pc # "find")

\* the exports that returned a path
Exported == { j \in 1..Len(returned) : returned[j] # None }

\* C5: a model name the resolver does not recognize aborts that model only:
\* when the script has ended, every model after it in the list was resolved.
C5_UnrecognizedAbortsOneModel ==
  RunEnded =>
    \A j \in 1..Len(models), k \in 1..Len(models) :
      (j < k /\ ~Recognized(script, models[j])) => Attempted(k)

\* C6: an export for which the resolver found no file returns None and writes
\* nothing, and when the script has ended every later model of the list was
\* processed.
C6_NoFileSkipsAndContinues ==
  /\ Len(writes) = Cardinality(Exported)
  /\ \A j \in 1..Len(returned) :
       returned[j] = None => out_name(models[j]) \notin Range(writes)
  /\ RunEnded =>
       \A j \in 1..Len(returned), k \in 1..Len(models) :
         (returned[j] = None /\ j < k) => Attempted(k)

c_256GB == <<"2","5","6"," ","G","B">>
m_Pixel9ProXL == c_Pixel \o <<" ","9">> \o c_ProXL

\* C7: when the only source file is pixel_9_pro_xl_sold.csv with the two rows
\* of the scenario, the export of "Pixel 9 Pro XL" writes one row, with
\* Storage "256 GB", Condition "Excellent" and Model "Pixel 9 Pro XL".
C7_EndToEnd ==
  \A j \in 1..Len(returned) :
    ( /\ script \in {"test", "pixel_all"}
      /\ models[j] = m_Pixel9ProXL
      /\ f_pixel_9_pro_xl_sold \in DOMAIN fs
      /\ DOMAIN fs \subseteq {f_pixel_9_pro_xl_sold} \cup Range(writes)
      /\ fs[f_pixel_9_pro_xl_sold] = << [Title |-> t_Pixel9ProXL_256], [Title |-> t_PixelCase] >> )
    => /\ returned[j] = out_name(m_Pixel9ProXL)
       /\ returned[j] \in DOMAIN fs
       /\ Len(fs[returned[j]]) = 1
       /\ fs[returned[j]][1].Storage = c_256GB
       /\ fs[returned[j]][1].Condition = c_Excellent
       /\ fs[returned[j]][1].Model = m_Pixel9ProXL

\* C10: a model name that does not parse against the grammar of the resolver
\* makes find_csv_for_model raise "Model name not recognized" and return no
\* path; the export of that model reads no file and writes no file.
C10_UnrecognizedRaises ==
  /\ pc \in {"found", "loaded", "cleaned"} => Recognized(script, models[cursor])
  /\ \A j \in 1..Len(returned) : Recognized(script, models[j])
  /\ (pc = "crashed" /\ ~Recognized(script, models[cursor])) =>
       /\ exc = NameNotRecognized
       /\ src = None
       /\ Len(returned) = cursor - 1
       /\ Len(reads) = Cardinality(Exported)
       /\ Len(writes) = Cardinality(Exported)

\* the script ended on an unrecognized name after it had exported a model
C10_Witness ==
  /\ pc = "crashed" /\ ~Recognized(script, models[cursor])
  /\ cursor = 2 /\ Len(writes) = 1 /\ Len(reads) = 1

\* the file names that spell the family, the number and the variant tokens v
NamesFor(fam, v) ==
  { pre \o FileKeyword(fam) \o sep \o FileNumber(fam) \o JoinTokens(v, sep) \o suf \o w_csv :
      pre \in FilePrefixes, sep \in Separators, suf \in FileSuffixes }

\* the variants of which the variant of the requested model is a strict prefix
LongerVariants(fam, model_name) ==
  IF model_name = FamilyName(fam) \o <<" ">> \o FileNumber(fam)
  THEN FileVariants(fam) \ { <<>> }
  ELSE IF model_name = FamilyName(fam) \o <<" ">> \o FileNumber(fam) \o c_Pro
  THEN { v \in FileVariants(fam) : Len(v) = 2 /\ v[1] = w_pro }
  ELSE {}

\* C11: asked for a model whose variant is a strict prefix of a longer variant
\* (the base model, or Pro), the resolver never returns a file named for the
\* longer variant of the same family and number.
C11_NoLongerVariantFile ==
  (pc = "resolved" /\ found.exc = "" /\ found.path # None) =>
    \A v \in LongerVariants(Family(script), request) :
      found.path \notin NamesFor(Family(script), v)

\* C12: every canonical model the normalizer of a script returns is a model
\* name the resolver of that script accepts: find_csv_for_model does not raise
\* "Model name not recognized" for it.
C12_ResolverAcceptsCanonicalModels ==
  (pc = "titled" /\ model # None) => Recognized(script, model)

UpperOf == [c \in LowerLetters |-> CHOOSE u \in UpperLetters : Lower(u) = c]

\* the string with every letter in upper case
upper(s) == [k \in 1..Len(s) |-> IF s[k] \in LowerLetters THEN UpperOf[s[k]] ELSE s[k]]

\* the titles that are one model mention and nothing else
SingleMentions(fam) ==
  { kw \o num \o vt : kw \in Keywords(fam), num \in Numbers, vt \in VariantTexts(fam) }

\* runs of several whitespace characters
WhitespaceRuns == { <<" "," ">>, <<" ","\t">>, <<" "," "," ">> }

\* the string with its k-th character replaced by run
Respace(s, k, run) == SubSeq(s, 1, k - 1) \o run \o SubSeq(s, k + 1, Len(s))

\* C13: the canonical string of a mention does not change when the case of
\* its letters changes, nor when one of its spaces is replaced by a run of
\* several whitespace characters.
C13_CaseAndWhitespaceCanonical ==
  (pc = "titled" /\ title \in SingleMentions(Family(script))) =>
    /\ extract_single_model_or_none(script, lower(title)) = model
    /\ extract_single_model_or_none(script, upper(title)) = model
    /\ \A k \in 1..Len(title), run \in WhitespaceRuns :
         title[k] = " " =>
           extract_single_model_or_none(script, Respace(title, k, run)) = model

\* the part of C13 about letter case alone
C13_CaseCanonical ==
  (pc = "titled" /\ title \in SingleMentions(Family(script))) =>
    /\ extract_single_model_or_none(script, lower(title)) = model
    /\ extract_single_model_or_none(script, upper(title)) = model

\* the date a Sold Date text stands for: 2025-10-21 for "Sold Oct 21, 2025",
\* however its whitespace runs, and no date for the other texts
DateOf(text) ==
  IF text \in { d_Oct21, d_Oct21Runs } THEN [year |-> 2025, month |-> 10, day |-> 21]
  ELSE NaT

\* the Sold Date text of the source row with the label of row
SourceDate(row) == (CHOOSE r \in Range(df) : r.index = row.index).SoldDate

\* the DataFrame without its Sold Date column
RECURSIVE DropDates(_)
DropDates(rows) ==
  IF rows = <<>> THEN <<>>
  ELSE <<[Head(rows) EXCEPT !.SoldDate = NoColumn]>> \o DropDates(Tail(rows))

\* every exported row has the date of its text, the absent date when the text
\* is no date, and the rows kept are those kept without the column
DatesParsedRowsUnaffected ==
  /\ \A a \in 1..Len(subset) : subset[a].SoldDate = DateOf(SourceDate(subset[a]))
  /\ Labels(subset) = Labels(clean_and_filter_for_model(script, DropDates(df), target))

HasSub(s, w) ==
  \E k \in 1..(Len(s) - Len(w) + 1) : SubSeq(s, k, k + Len(w) - 1) = w

\* C15: extract_condition returns "Excellent" when the title contains
\* "Excellent", otherwise "Very Good" when it contains "Very", otherwise
\* "Good" when it contains "Good", otherwise "Unknown", letter case counting.
C15_ConditionCascade ==
  pc = "fielded" =>
    /\ fields.Condition \in { c_Excellent, c_VeryGood, c_Good, c_Unknown }
    /\ fields.Condition =
         IF HasSub(title, c_Excellent) THEN c_Excellent
         ELSE IF HasSub(title, c_Very) THEN c_VeryGood
         ELSE IF HasSub(title, c_Good) THEN c_Good
         ELSE c_Unknown

\* a title with both "Excellent" and "Good" gave "Excellent"
C15_Witness ==
  /\ pc = "fielded"
  /\ HasSub(title, c_Excellent) /\ HasSub(title, c_Good)
  /\ fields.Condition = c_Excellent

\* "GB" in any letter case stands at position g of s
IsGBAt(s, g) == g + 1 <= Len(s) /\ Lower(s[g]) = "g" /\ Lower(s[g + 1]) = "b"

\* where the digits before the GB at g end: one whitespace character may
\* stand between them and GB
DigitsEnd(s, g) == IF g > 1 /\ s[g - 1] \in Whitespace THEN g - 2 ELSE g - 1

RECURSIVE RunLen(_, _)
\* how many digits in a row end at position e of s
RunLen(s, e) == IF e < 1 \/ s[e] \notin Digits THEN 0 ELSE 1 + RunLen(s, e - 1)

\* the positions of a GB that at least two digits precede; with whole, only
\* those where no letter, digit or underscore follows the GB
StoragePlaces(s, whole) ==
  { g \in 1..Len(s) :
      /\ IsGBAt(s, g)
      /\ RunLen(s, DigitsEnd(s, g)) >= 2
      /\ whole => (g + 2 > Len(s) \/ ~IsWordChar(s[g + 2])) }

\* "<digits> GB" for the first of these places, the digits being the (at
\* most four) digits that end before the GB; "Unknown" when there is none
StorageOf(s, whole) ==
  IF StoragePlaces(s, whole) = {} THEN c_Unknown
  ELSE LET g == CHOOSE x \in StoragePlaces(s, whole) :
                  \A y \in StoragePlaces(s, whole) : x <= y
           e == DigitsEnd(s, g)
           n == IF RunLen(s, e) > 4 THEN 4 ELSE RunLen(s, e)
       IN  SubSeq(s, e - n + 1, e) \o c_GB

\* C16 as stated: extract_storage returns "<digits> GB" for the first place
\* where 2 to 4 digits are followed by at most one whitespace character and
\* GB in any letter case, and "Unknown" when the title has no such place.
C16_StorageFirstPlace ==
  pc = "fielded" => fields.Storage = StorageOf(title, FALSE)

\* C16 as amended: the same, for the places where the GB ends a word.
C16_StorageFirstWholeWordPlace ==
  pc = "fielded" => fields.Storage = StorageOf(title, TRUE)

\* a title in which a first GB begins a longer word and a second one gives
\* the storage
C16_Witness ==
  /\ pc = "fielded"
  /\ StoragePlaces(title, FALSE) # StoragePlaces(title, TRUE)
  /\ StoragePlaces(title, TRUE) # {}
  /\ fields.Storage = StorageOf(title, TRUE)
  /\ fields.Storage # c_Unknown

\* the list with its k-th and (k+1)-th names exchanged
Swap(q, k) ==
  [a \in 1..Len(q) |-> IF a = k THEN q[k + 1] ELSE IF a = k + 1 THEN q[k] ELSE q[a]]

AllRecognized == \A a \in 1..Len(models) : Recognized(script, models[a])

\* the directory at the end of the run is the one the run of the list gives,
\* and the one the run of the list with two neighbours exchanged gives
SameAfterAnySwap ==
  /\ fs = RunBatch(script, fs0, models)
  /\ \A k \in 1..(Len(models) - 1) : RunBatch(script, fs0, Swap(models, k)) = fs

DirEntries0 == { [name |-> n, folder |-> ""] : n \in DOMAIN fs0 }

C19_LongerWordIsNoSuffix ==
  pc = "titled" =>
    \A kw \in Keywords(Family(script)), num \in Numbers :
      title = kw \o num \o c_Pro \o <<"d","u","c","t","i","o","n">> =>
        model = FamilyName(Family(script)) \o <<" ">> \o num

\* C19: a variant suffix counts when a character that is no letter and no
\* digit follows it, an underscore included, and does not count when it begins
\* a longer word: "<Family> N Production" normalizes to "<Family> N" and
\* "<Family> N Pro_x" to "<Family> N Pro".
C19_SuffixIsWholeWord ==
  /\ C19_LongerWordIsNoSuffix
  /\ pc = "titled" =>
       \A kw \in Keywords(Family(script)), num \in Numbers :
         title = kw \o num \o c_Pro \o <<"_","x">> =>
           model = FamilyName(Family(script)) \o <<" ">> \o num \o c_Pro

\* the page loaded, held the results list and an enabled next-page link
GoodPage(page) ==
  /\ page.nav = "ok" /\ page.selector /\ page.results_list
  /\ page.next = "enabled"

\* the pages requested before the first one that was not good
BeforeStop == { k \in 1..Len(web) : \A j \in 1..k : GoodPage(web[j]) }

\* C20: the pages are requested in the order 1, 2, ..., k with k <= max_pages;
\* no page is requested after one on which navigation raised, the results list
\* was not found or the next-page link was missing or disabled; and the run
\* returns every item of the pages before that one.
C20_PagesInOrderItemsKept ==
  /\ Len(requested) <= max_pages
  /\ \A k \in 1..Len(requested) : requested[k] = k
  /\ \A k \in 1..Len(requested) : k - 1 \in BeforeStop \cup {0}
  /\ pc = "returned" =>
       \A k \in BeforeStop :
         SelectSeq(result, LAMBDA it : it.Page = k) = page_items(web[k].items, k, 1)

\* navigation raised on page 2 of 3 and the item of page 1 was returned
C20_Witness ==
  /\ pc = "returned" /\ max_pages = 3
  /\ requested = <<1, 2>>
  /\ web[2].nav = "raises"
  /\ result = << [Page |-> 1, Item |-> 1] >>
====
